---- MODULE Spec2Model ----
(***************************************************************************)
(* Model of scripts/migrate.js: the domain-scoped migration orchestrator.  *)
(*                                                                         *)
(* The orchestrator keeps no ledger code of its own: every forward and     *)
(* backward step is a call of the Knex migrator, db.migrate.up({name}) or  *)
(* db.migrate.down({name}), and "Knex handles tracking" (migrate.js:78).   *)
(* KnexUp and KnexDown model one such call: the migrator looks the name up *)
(* among the completed rows and the migration source, takes the batch      *)
(* number as max(batch)+1 for that call, runs the file's operation and     *)
(* then writes or deletes the knex_migrations row.                         *)
(*                                                                         *)
(* The script runs one command per process and awaits every migrate call, *)
(* so one invocation is one action: it takes the ledger it finds to the    *)
(* ledger it leaves, and writes down the operations it executed, in order, *)
(* and its exit status.  Which files' operations fail is an input of the   *)
(* invocation.                                                             *)
(***************************************************************************)
EXTENDS Integers, Sequences, FiniteSets, TLC

\* ---------------------------------------------------------------- bounds
MaxBatch == 4       \* batch numbers are capped (they grow with every insert)
MaxDomains == 2     \* length of the domain list of one invocation

\* ------------------------------------------------------------ file system
\* the domains that have a migrations directory; any other name a caller
\* passes, such as "ghost", has none
Domains == {"auth", "example"}

\* readdirSync(directory)
Directory(d) ==
  CASE d = "auth"    -> {"auth-01-schema.js"}
    [] d = "example" -> {"example-01-schema.js", "example-02-tag.js",
                         "example-03-bookmark.js", "README.md"}
    [] OTHER         -> {}

existsSync(d) == d \in {"auth", "example"}

\* the domains `create` is run for: the two of the repository and one that
\* has no directory yet and a hyphen in its name
TreeDomains == {"auth", "example", "user-profile"}

\* the UTF-16 code units of a file name
Code(n) ==
  CASE n = "auth-01-schema.js" ->
         <<97,117,116,104,45,48,49,45,115,99,104,101,109,97,46,106,115>>
    [] n = "example-01-schema.js" ->
         <<101,120,97,109,112,108,101,45,48,49,45,115,99,104,101,109,97,46,106,115>>
    [] n = "example-02-tag.js" ->
         <<101,120,97,109,112,108,101,45,48,50,45,116,97,103,46,106,115>>
    [] n = "example-03-bookmark.js" ->
         <<101,120,97,109,112,108,101,45,48,51,45,98,111,111,107,109,97,114,107,46,106,115>>
    [] n = "README.md" -> <<82,69,65,68,77,69,46,109,100>>
    [] OTHER -> <<110,111,110,101,46,106,115>>      \* "none.js"

\* f.endsWith('.js')
endsWithJs(n) ==
  LET c == Code(n) IN
    /\ Len(c) >= 3
    /\ SubSeq(c, Len(c) - 2, Len(c)) = <<46, 106, 115>>

\* the default comparison of Array.prototype.sort: by code units
RECURSIVE SeqLess(_, _)
SeqLess(a, b) ==
  IF b = <<>> THEN FALSE
  ELSE IF a = <<>> THEN TRUE
  ELSE IF Head(a) # Head(b) THEN Head(a) < Head(b)
  ELSE SeqLess(Tail(a), Tail(b))

LexLess(m, n) == SeqLess(Code(m), Code(n))

RECURSIVE sort(_)
sort(S) ==
  IF S = {} THEN <<>>
  ELSE LET m == CHOOSE x \in S : \A y \in S \ {x} : LexLess(x, y)
       IN <<m>> \o sort(S \ {m})

readFiles(d) ==
  IF ~existsSync(d) THEN <<>>
  ELSE sort({f \in Directory(d) : endsWithJs(f)})

\* the file system does not change between invocations: the listing of
\* every domain, computed once
Registry == [d \in Domains |-> readFiles(d)]

\* a name that is no domain of the registry has no migrations directory
getMigrationFiles(d) == IF d \in Domains THEN Registry[d] ELSE readFiles(d)

\* ------------------------------------------------------- sequence helpers
Range(s) == {s[i] : i \in 1..Len(s)}

\* the elements of s that are in `keep`, in the order of s
filter(s, keep) == SelectSeq(s, LAMBDA x : x \in keep)

reverse(s) == [i \in 1..Len(s) |-> s[Len(s) + 1 - i]]

Max(S) == CHOOSE x \in S : \A y \in S : y <= x


\* ------------------------------------------------------------------ state
\* A row of knex_migrations is [name, batch]; the autoincrement id is the
\* row's position in the sequence (rows are only ever appended or deleted,
\* and every query of the script orders by id).
VARIABLES
  hasTable,      \* db.schema.hasTable('knex_migrations'): the script and the
                 \* migrator both create the table when it is missing
  ledger,        \* the rows of knex_migrations, ordered by id
  inEffect,      \* the migrations whose forward operation has succeeded and
                 \* has not since been successfully reverted (the tables the
                 \* files' exports.up created and exports.down did not drop)
  last,          \* the invocation that finished last: what it was given,
                 \* the ledger it started from, the operations it executed
                 \* in order, and its exit status
  proc,          \* the running process, where an invocation is followed
                 \* await by await: its place in the code, its loop
                 \* variables and its open connections
  tree           \* the migrations directories as `create` reads and writes
                 \* them: for each domain the set of file names

vars == <<hasTable, ledger, inEffect, last, proc, tree>>

Names(L) == {L[i].name : i \in 1..Len(L)}

\* -------------------------------------------------------- ledger queries
\* rows.map(r => r.name) of select('name').orderBy('id')
getAppliedMigrations(L) == [i \in 1..Len(L) |-> L[i].name]

\* result[0].max_batch || 0
getLatestBatch(L) ==
  IF L = <<>> THEN 0 ELSE Max({L[i].batch : i \in 1..Len(L)})

\* the rows of L that are in `keep`, in id order
selectRows(L, keep) == SelectSeq(L, LAMBDA r : r \in keep)

rowNames(rows) == [i \in 1..Len(rows) |-> rows[i].name]

\* where('batch', latestBatch).whereIn('name', files).orderBy('id','desc')
toRollback(L, latestBatch, files) ==
  rowNames(reverse(selectRows(L,
    {r \in Range(L) : r.batch = latestBatch /\ r.name \in Range(files)})))

\* mutant: the rows ordered by id ascending
appliedMigrations_asc(L, files) ==
  rowNames(selectRows(L, {r \in Range(L) : r.name \in Range(files)}))

\* mutant: the rows ordered by file name descending
appliedMigrations_byName(L, files) ==
  reverse(filter(files, Names(L)))

\* whereIn('name', files).orderBy('id', 'desc')
appliedMigrations(L, files) ==
  rowNames(reverse(selectRows(L, {r \in Range(L) : r.name \in Range(files)})))

\* ---------------------------------------------------------- Knex migrator
\* the files the migrator itself can resolve a name to: the migrations
\* directories of every domain
KnexMigrationSource ==
  UNION {{Registry[d][i] : i \in 1..Len(Registry[d])} : d \in Domains}

\* The outcome of a stretch of an invocation: the ledger, the operations
\* executed so far and whether an error is propagating.
Outcome(L, log, threw) == [ledger |-> L, log |-> log, threw |-> threw]

Op(dir, name, ok) == [dir |-> dir, name |-> name, ok |-> ok]

\* mutant: a completed name is not skipped but run and recorded again
KnexUp_noSkip(L, log, name, fail) ==
  IF name \notin KnexMigrationSource THEN Outcome(L, log, TRUE)
  ELSE IF name \in fail
    THEN Outcome(L, Append(log, Op("up", name, FALSE)), TRUE)
  ELSE Outcome(Append(L, [name |-> name, batch |-> getLatestBatch(L) + 1]),
               Append(log, Op("up", name, TRUE)), FALSE)

\* mutant: the row is written before the forward operation runs and stays
\* when it fails
KnexUp_recordOnFailure(L, log, name, fail) ==
  IF name \in Names(L) THEN Outcome(L, log, FALSE)
  ELSE IF name \notin KnexMigrationSource THEN Outcome(L, log, TRUE)
  ELSE Outcome(Append(L, [name |-> name, batch |-> getLatestBatch(L) + 1]),
               Append(log, Op("up", name, name \notin fail)), name \in fail)

\* mutant: a name the migrator cannot resolve is skipped without an error
KnexUp_unknownSkipped(L, log, name, fail) ==
  IF name \in Names(L) \/ name \notin KnexMigrationSource
    THEN Outcome(L, log, FALSE)
  ELSE IF name \in fail
    THEN Outcome(L, Append(log, Op("up", name, FALSE)), TRUE)
  ELSE Outcome(Append(L, [name |-> name, batch |-> getLatestBatch(L) + 1]),
               Append(log, Op("up", name, TRUE)), FALSE)

\* mutant: a completed name is rejected as an error
KnexUp_rejectCompleted(L, log, name, fail) ==
  IF name \in Names(L) \/ name \notin KnexMigrationSource
    THEN Outcome(L, log, TRUE)
  ELSE IF name \in fail
    THEN Outcome(L, Append(log, Op("up", name, FALSE)), TRUE)
  ELSE Outcome(Append(L, [name |-> name, batch |-> getLatestBatch(L) + 1]),
               Append(log, Op("up", name, TRUE)), FALSE)

\* mutant: the row takes the latest batch number as it is, without adding 1
KnexUp_reuseBatch(L, log, name, fail) ==
  IF name \in Names(L) THEN Outcome(L, log, FALSE)
  ELSE IF name \notin KnexMigrationSource THEN Outcome(L, log, TRUE)
  ELSE IF name \in fail
    THEN Outcome(L, Append(log, Op("up", name, FALSE)), TRUE)
  ELSE Outcome(Append(L, [name |-> name,
                          batch |-> IF L = <<>> THEN 1 ELSE getLatestBatch(L)]),
               Append(log, Op("up", name, TRUE)), FALSE)

\* db.migrate.up({name}): an already completed name is skipped; a name that
\* is neither completed nor in the source is an error; otherwise the file's
\* forward operation runs and, when it succeeds, one row is inserted with
\* batch = latest batch + 1 of that call.
KnexUp(L, log, name, fail) ==
  IF name \in Names(L) THEN Outcome(L, log, FALSE)
  ELSE IF name \notin KnexMigrationSource THEN Outcome(L, log, TRUE)
  ELSE IF name \in fail
    THEN Outcome(L, Append(log, Op("up", name, FALSE)), TRUE)
  ELSE Outcome(Append(L, [name |-> name, batch |-> getLatestBatch(L) + 1]),
               Append(log, Op("up", name, TRUE)), FALSE)

\* mutant: the row is deleted before the backward operation runs and stays
\* deleted when it fails
KnexDown_deleteOnFailure(L, log, name, fail) ==
  IF name \notin Names(L) \/ name \notin KnexMigrationSource
    THEN Outcome(L, log, TRUE)
  ELSE Outcome(selectRows(L, {r \in Range(L) : r.name # name}),
               Append(log, Op("down", name, name \notin fail)), name \in fail)

\* mutant: a name with no completed row is skipped without an error
KnexDown_absentNoop(L, log, name, fail) ==
  IF name \notin Names(L) \/ name \notin KnexMigrationSource
    THEN Outcome(L, log, FALSE)
  ELSE IF name \in fail
    THEN Outcome(L, Append(log, Op("down", name, FALSE)), TRUE)
  ELSE Outcome(selectRows(L, {r \in Range(L) : r.name # name}),
               Append(log, Op("down", name, TRUE)), FALSE)

\* db.migrate.down({name}): a name with no completed row is an error
\* ('Migration "name" was not run.'); otherwise the file's backward
\* operation runs and, when it succeeds, the rows of that name are deleted.
KnexDown(L, log, name, fail) ==
  IF name \notin Names(L) \/ name \notin KnexMigrationSource
    THEN Outcome(L, log, TRUE)
  ELSE IF name \in fail
    THEN Outcome(L, Append(log, Op("down", name, FALSE)), TRUE)
  ELSE Outcome(selectRows(L, {r \in Range(L) : r.name # name}),
               Append(log, Op("down", name, TRUE)), FALSE)

\* ------------------------------------------------------------- the loops
RECURSIVE upEach_continue(_, _, _)
\* mutant: an error of migrate.up is caught inside the loop, which goes on
upEach_continue(o, files, fail) ==
  IF files = <<>> THEN o
  ELSE LET r == KnexUp(o.ledger, o.log, Head(files), fail)
       IN upEach_continue(Outcome(r.ledger, r.log, FALSE), Tail(files), fail)

\* mutant: the loop is left after its first file
upEach_onlyFirst(o, files, fail) ==
  IF files = <<>> \/ o.threw THEN o
  ELSE KnexUp(o.ledger, o.log, Head(files), fail)

RECURSIVE upEach(_, _, _)
\* for (const file of pending) { await db.migrate.up({ name: file.name }) }
upEach(o, files, fail) ==
  IF files = <<>> \/ o.threw THEN o
  ELSE upEach(KnexUp(o.ledger, o.log, Head(files), fail), Tail(files), fail)

RECURSIVE downEach_continue(_, _, _)
\* mutant: an error of migrate.down is caught inside the loop, which goes on
downEach_continue(o, names, fail) ==
  IF names = <<>> THEN o
  ELSE LET r == KnexDown(o.ledger, o.log, Head(names), fail)
       IN downEach_continue(Outcome(r.ledger, r.log, FALSE), Tail(names), fail)

RECURSIVE downEach(_, _, _)
\* for (const row of toRollback) { await db.migrate.down({ name: row.name }) }
downEach(o, names, fail) ==
  IF names = <<>> \/ o.threw THEN o
  ELSE downEach(KnexDown(o.ledger, o.log, Head(names), fail), Tail(names), fail)

\* mutant: only the files after the last applied file of the listing count
\* as pending
pendingOf_afterLast(allFiles, app) ==
  filter(allFiles,
         {f \in Range(allFiles) :
            \A g \in Range(allFiles) \cap Range(app) : LexLess(g, f)})

\* const pending = allFiles.filter(f => !applied.includes(f.name))
pendingOf(allFiles, app) == filter(allFiles, Range(allFiles) \ Range(app))

RECURSIVE latestLoop_returnOnEmpty(_, _, _, _)
\* mutant: a domain with nothing pending ends the loop (`return` in the
\* place of `continue`)
latestLoop_returnOnEmpty(o, app, doms, fail) ==
  IF doms = <<>> \/ o.threw THEN o
  ELSE IF pendingOf(getMigrationFiles(Head(doms)), app) = <<>> THEN o
  ELSE latestLoop_returnOnEmpty(
         upEach(o, pendingOf(getMigrationFiles(Head(doms)), app), fail),
         app, Tail(doms), fail)

RECURSIVE latestLoop(_, _, _, _)
\* for (const domain of domains), action === 'latest'; `app` is the list
\* read before the loop
latestLoop(o, app, doms, fail) ==
  IF doms = <<>> \/ o.threw THEN o
  ELSE latestLoop(
         upEach(o, pendingOf(getMigrationFiles(Head(doms)), app), fail),
         app, Tail(doms), fail)

RECURSIVE rollbackLoop_emptyIsError(_, _, _)
\* mutant: an empty ledger makes `rollback` fail
rollbackLoop_emptyIsError(o, doms, fail) ==
  IF doms = <<>> \/ o.threw THEN o
  ELSE LET latestBatch == getLatestBatch(o.ledger)
           names == IF latestBatch = 0 THEN <<>>
                    ELSE toRollback(o.ledger, latestBatch,
                                    getMigrationFiles(Head(doms)))
       IN IF latestBatch = 0 THEN Outcome(o.ledger, o.log, TRUE)
          ELSE rollbackLoop_emptyIsError(downEach(o, names, fail),
                                         Tail(doms), fail)

RECURSIVE rollbackLoop(_, _, _)
\* for (const domain of domains), action === 'rollback'; the latest batch
\* is read again for every domain
rollbackLoop(o, doms, fail) ==
  IF doms = <<>> \/ o.threw THEN o
  ELSE LET latestBatch == getLatestBatch(o.ledger)
           names == IF latestBatch = 0 THEN <<>>
                    ELSE toRollback(o.ledger, latestBatch,
                                    getMigrationFiles(Head(doms)))
       IN rollbackLoop(downEach(o, names, fail), Tail(doms), fail)

\* mutant: no try/catch around migrate.down: the first error ends the loop
downCaught_stop(o, names, fail) == downEach(o, names, fail)

RECURSIVE downCaught(_, _, _)
\* rollbackDomain's for-loop: try { await db.migrate.down } catch { log }
downCaught(o, names, fail) ==
  IF names = <<>> THEN o
  ELSE LET r == KnexDown(o.ledger, o.log, Head(names), fail)
       IN downCaught(Outcome(r.ledger, r.log, FALSE), Tail(names), fail)

\* mutant: only the rows of the latest batch are selected
rollbackDomain_latestBatch(o, d, fail) ==
  LET allFiles == getMigrationFiles(d) IN
    IF Len(allFiles) = 0 THEN o
    ELSE downCaught(o, toRollback(o.ledger, getLatestBatch(o.ledger),
                                  allFiles), fail)

\* rollbackDomain(domain): nothing for a domain without files, else the
\* backward operation of each applied file of the domain, newest row first

rollbackDomain(o, d, fail) ==
  LET allFiles == getMigrationFiles(d) IN
    IF Len(allFiles) = 0 THEN o
    ELSE downCaught(o, appliedMigrations(o.ledger, allFiles), fail)

RECURSIVE removeLoop(_, _, _)
\* for (const domain of reversedDomains) { await rollbackDomain(domain) }
removeLoop(o, doms, fail) ==
  IF doms = <<>> \/ o.threw THEN o
  ELSE removeLoop(rollbackDomain(o, Head(doms), fail), Tail(doms), fail)

\* ------------------------------------------------------------ invocations
DomainLists == UNION {[1..n -> Domains] : n \in 1..MaxDomains}

\* file names an operator can pass to up/down (one of them is no file)
FileArgs == KnexMigrationSource \cup {"none.js"}

FilesOf(doms) ==
  UNION {Range(getMigrationFiles(doms[i])) : i \in 1..Len(doms)}

\* mutant: the pending list is not filtered
statusReport_pendingAll(app, doms) ==
  [i \in 1..Len(doms) |->
     LET allFiles == getMigrationFiles(doms[i]) IN
       [domain |-> doms[i],
        completed |-> filter(allFiles, Range(app)),
        pending |-> allFiles]]

\* what the `status` branch prints for each domain: the completed and the
\* pending files, from the list `app` read before the loop
statusReport(app, doms) ==
  [i \in 1..Len(doms) |->
     LET allFiles == getMigrationFiles(doms[i]) IN
       [domain |-> doms[i],
        completed |-> filter(allFiles, Range(app)),
        pending |-> pendingOf(allFiles, app)]]

Invocation(act, args, start, o) ==
  [action |-> act, args |-> args, start |-> start, log |-> o.log,
   exit |-> IF o.threw THEN 1 ELSE 0,
   report |-> IF act = "status"
                THEN statusReport(getAppliedMigrations(start), args)
                ELSE <<>>]

NoInvocation ==
  [action |-> "none", args |-> <<>>, start |-> <<>>, log |-> <<>>, exit |-> 0,
   report |-> <<>>]

RECURSIVE runOps(_, _)
\* what the operations of `log`, executed in order, make of the set S of
\* migrations in effect: exports.up that succeeds puts the migration in
\* effect, exports.down that succeeds takes it out, one that throws does
\* neither
runOps(S, log) ==
  IF log = <<>> THEN S
  ELSE LET e == Head(log) IN
         runOps(IF ~e.ok THEN S
                ELSE IF e.dir = "up" THEN S \cup {e.name}
                ELSE S \ {e.name},
                Tail(log))

\* no process is running
Idle ==
  [pc |-> "idle", action |-> "none", args |-> <<>>, start |-> <<>>,
   app |-> <<>>, domains |-> <<>>, names |-> <<>>, fail |-> {},
   log |-> <<>>, threw |-> FALSE, conns |-> 0]

\* the process ends with the outcome o
Exit(act, args, o) ==
  /\ ledger' = o.ledger
  /\ inEffect' = runOps(inEffect, o.log)
  /\ last' = Invocation(act, args, ledger, o)
  /\ proc' = proc
  /\ tree' = tree

Init ==
  /\ hasTable = FALSE
  /\ ledger = <<>>
  /\ inEffect = {}
  /\ last = NoInvocation
  /\ proc = Idle
  /\ tree = [d \in TreeDomains |-> Directory(d)]

\* mutant: the domains are processed last to first
latest_reverseDomains(doms, fail) ==
  /\ getLatestBatch(ledger)
       + Cardinality(FilesOf(doms) \ Names(ledger)) <= MaxBatch
  /\ hasTable' = TRUE
  /\ Exit("latest", doms,
          latestLoop(Outcome(ledger, <<>>, FALSE),
                     getAppliedMigrations(ledger), reverse(doms), fail))

\* runMigrations(domains, 'latest'); an error is rethrown and the caller's
\* .catch exits with 1, otherwise the process ends with 0
latest(doms, fail) ==
  /\ getLatestBatch(ledger)
       + Cardinality(FilesOf(doms) \ Names(ledger)) <= MaxBatch
  /\ hasTable' = TRUE
  /\ Exit("latest", doms,
          latestLoop(Outcome(ledger, <<>>, FALSE),
                     getAppliedMigrations(ledger), doms, fail))

\* runMigrations(domains, 'rollback')
rollback(doms, fail) ==
  /\ hasTable' = TRUE
  /\ Exit("rollback", doms,
          rollbackLoop(Outcome(ledger, <<>>, FALSE), doms, fail))

\* mutant: `status` takes the branch of `latest`
status_asLatest(doms) ==
  /\ getLatestBatch(ledger)
       + Cardinality(FilesOf(doms) \ Names(ledger)) <= MaxBatch
  /\ hasTable' = TRUE
  /\ Exit("status", doms,
          latestLoop(Outcome(ledger, <<>>, FALSE),
                     getAppliedMigrations(ledger), doms, {}))

\* runMigrations(domains, 'status'): only console output
status(doms) ==
  /\ hasTable' = TRUE
  /\ Exit("status", doms, Outcome(ledger, <<>>, FALSE))

\* mutant: the domains are processed in the order given
remove_inOrder(doms, fail) ==
  /\ hasTable' = TRUE
  /\ Exit("remove", doms, removeLoop(Outcome(ledger, <<>>, FALSE), doms, fail))

\* the `remove` branch of the CLI: the domains reversed, rollbackDomain for
\* each, then process.exit(0)
remove(doms, fail) ==
  /\ hasTable' = TRUE
  /\ Exit("remove", doms,
          removeLoop(Outcome(ledger, <<>>, FALSE), reverse(doms), fail))

\* runSingleMigration(filename, 'up'), then exit 0, or exit 1 on an error
up(filename, fail) ==
  /\ endsWithJs(filename)
  /\ getLatestBatch(ledger) + 1 <= MaxBatch
  /\ hasTable' = TRUE
  /\ Exit("up", <<filename>>, KnexUp(ledger, <<>>, filename, fail))

\* mutant: the action of runSingleMigration is not looked at
down_asUp(filename, fail) ==
  /\ endsWithJs(filename)
  /\ hasTable' = TRUE
  /\ Exit("down", <<filename>>, KnexUp(ledger, <<>>, filename, fail))

\* runSingleMigration(filename, 'down')
down(filename, fail) ==
  /\ endsWithJs(filename)
  /\ hasTable' = TRUE
  /\ Exit("down", <<filename>>, KnexDown(ledger, <<>>, filename, fail))

\* the files whose operation the invocation can reach
Touched(act, doms) ==
  IF act = "latest" THEN FilesOf(doms) \ Names(ledger)
  ELSE FilesOf(doms) \cap Names(ledger)

\* The failing files of an invocation: none, or one of the files it can
\* reach.  latest and rollback stop at the first failing file, so for them
\* which one it is, if any, is all that matters of the input; remove goes
\* on after a failure, and is run here with at most one broken file.
OneOrNone(S) == {{}} \cup {{f} : f \in S}

Next ==
  \/ \E doms \in DomainLists : \E fail \in OneOrNone(Touched("latest", doms)) :
       latest(doms, fail)
  \/ \E doms \in DomainLists : \E fail \in OneOrNone(Touched("rollback", doms)) :
       rollback(doms, fail)
  \/ \E doms \in DomainLists : status(doms)
  \/ \E doms \in DomainLists : \E fail \in OneOrNone(Touched("remove", doms)) :
       remove(doms, fail)
  \/ \E f \in FileArgs : \E fail \in OneOrNone({f}) : up(f, fail)
  \/ \E f \in FileArgs : \E fail \in OneOrNone({f}) : down(f, fail)

Spec == Init /\ [][Next]_vars

\* ------------------------------------------------------- the command line
\* s.endsWith(suffix)
endsWith(s, suffix) ==
  /\ Len(s) >= Len(suffix)
  /\ SubSeq(s, Len(s) - Len(suffix) + 1, Len(s)) = suffix

\* s.includes(',')
includesComma(s) == \E i \in 1..Len(s) : SubSeq(s, i, i) = ","

RECURSIVE splitComma(_, _)
\* s.split(','), with `acc` the piece being read
splitComma(s, acc) ==
  IF s = "" THEN <<acc>>
  ELSE IF Head(s) = "," THEN <<acc>> \o splitComma(Tail(s), "")
  ELSE splitComma(Tail(s), acc \o Head(s))

RECURSIVE trimStart(_)
trimStart(s) == IF s # "" /\ Head(s) = " " THEN trimStart(Tail(s)) ELSE s

RECURSIVE trimEnd(_)
trimEnd(s) ==
  IF s # "" /\ SubSeq(s, Len(s), Len(s)) = " "
    THEN trimEnd(SubSeq(s, 1, Len(s) - 1))
  ELSE s

\* d.trim()
trim(s) == trimEnd(trimStart(s))

RECURSIVE nonEmpty(_)
\* .filter(d => d.length > 0)
nonEmpty(ds) ==
  IF ds = <<>> THEN <<>>
  ELSE IF Len(Head(ds)) > 0 THEN <<Head(ds)>> \o nonEmpty(Tail(ds))
  ELSE nonEmpty(Tail(ds))

RECURSIVE parseDomains_noFilter(_)
\* mutant: the empty pieces of a comma-separated argument are kept
parseDomains_noFilter(input) ==
  IF input = <<>> THEN <<>>
  ELSE LET a == Head(input)
           ps == splitComma(a, "")
       IN (IF includesComma(a) THEN [i \in 1..Len(ps) |-> trim(ps[i])]
           ELSE <<a>>)
          \o parseDomains_noFilter(Tail(input))

RECURSIVE parseDomains(_)
\* parseDomains of the argument array: an argument with a comma is split,
\* its pieces trimmed and the empty ones dropped; one without is kept as is
parseDomains(input) ==
  IF input = <<>> THEN <<>>
  ELSE LET a == Head(input)
           ps == splitComma(a, "")
       IN (IF includesComma(a)
             THEN nonEmpty([i \in 1..Len(ps) |-> trim(ps[i])])
           ELSE <<a>>)
          \o parseDomains(Tail(input))

\* args.slice(1)
rest(argv) == SubSeq(argv, 2, Len(argv))

\* the usage message and process.exit(1): no connection is opened
usage(argv) ==
  /\ last' = [action |-> "usage", args |-> argv, start |-> ledger,
              log |-> <<>>, exit |-> 1, report |-> <<>>]
  /\ UNCHANGED <<hasTable, ledger, inEffect, proc, tree>>

\* args[0]; no argument at all reads as the empty string (both are falsy)
command(argv) == IF argv = <<>> THEN "" ELSE argv[1]

\* !domain || !name
createUsage(argv) ==
  IF Len(argv) < 3 THEN TRUE ELSE (argv[2] = "" \/ argv[3] = "")

\* targets.length === 0 || !targets[0].endsWith('.js')
fileUsage(argv) == IF Len(argv) < 2 THEN TRUE ELSE ~endsWith(argv[2], ".js")

\* ------------------------------------------------------------ scaffolding
\* createMigration(domain, name), on file names as strings.

\* padStart(2, '0')
PadWidth == 2

\* cap on the number of .js files of one directory
MaxFiles == 3

\* f.startsWith(prefix)
startsWith(s, prefix) ==
  /\ Len(s) >= Len(prefix)
  /\ SubSeq(s, 1, Len(prefix)) = prefix

Digits == "0123456789"

isDigit(c) == \E v \in 0..9 : SubSeq(Digits, v + 1, v + 1) = c

digitValue(c) == CHOOSE v \in 0..9 : SubSeq(Digits, v + 1, v + 1) = c

RECURSIVE parseInt(_)
\* parseInt of a string of decimal digits
parseInt(s) ==
  IF s = "" THEN 0
  ELSE parseInt(SubSeq(s, 1, Len(s) - 1)) * 10
         + digitValue(SubSeq(s, Len(s), Len(s)))

RECURSIVE String(_)
\* String(n) of a natural number
String(n) ==
  IF n < 10 THEN SubSeq(Digits, n + 1, n + 1)
  ELSE String(n \div 10) \o SubSeq(Digits, (n % 10) + 1, (n % 10) + 1)

RECURSIVE padStart(_, _)
\* s.padStart(w, '0')
padStart(s, w) == IF Len(s) >= w THEN s ELSE padStart("0" \o s, w)

\* the index of the first hyphen of s, 0 when it has none
firstHyphen(s) ==
  IF \A i \in 1..Len(s) : SubSeq(s, i, i) # "-" THEN 0
  ELSE CHOOSE i \in 1..Len(s) :
         /\ SubSeq(s, i, i) = "-"
         /\ \A j \in 1..(i - 1) : SubSeq(s, j, j) # "-"

RECURSIVE digitsEnd(_, _)
\* the index of the last digit of the run of digits of s that starts at i
\* (i - 1 when s has no digit at i)
digitsEnd(s, i) ==
  IF i <= Len(s) /\ isDigit(SubSeq(s, i, i)) THEN digitsEnd(s, i + 1)
  ELSE i - 1

\* f.match(/^[^-]+-(\d+)-/): the text of group 1, "" when f does not match.
\* [^-]+ ends at the first hyphen of f, \d+ takes the whole run of digits
\* after it, and a hyphen has to follow the run
match(f) ==
  LET h == firstHyphen(f)
      e == digitsEnd(f, h + 1)
  IN IF h >= 2 /\ e >= h + 1 /\ e + 1 <= Len(f)
        /\ SubSeq(f, e + 1, e + 1) = "-"
       THEN SubSeq(f, h + 1, e)
     ELSE ""

\* files.filter(startsWith(`${domain}-`) && endsWith('.js'))
\*      .map(f => match ? parseInt(match[1]) : 0), as the set of its values
numbers(domain, files) ==
  {IF match(f) # "" THEN parseInt(match(f)) ELSE 0 :
     f \in {g \in files : startsWith(g, domain \o "-") /\ endsWith(g, ".js")}}

\* numbers.length > 0 ? Math.max(...numbers) + 1 : 1
nextNum(domain, files) ==
  IF numbers(domain, files) # {} THEN Max(numbers(domain, files)) + 1 ELSE 1

\* `${domain}-${String(nextNum).padStart(2, '0')}-${name}.js`
filename(domain, num, name) ==
  domain \o "-" \o padStart(String(num), PadWidth) \o "-" \o name \o ".js"

\* createMigration(domain, name): the directory is made when it is missing,
\* the file is written (over a file of the same name, if there is one) and
\* the process exits with 0; no connection is opened
createMigration(domain, name) ==
  /\ Cardinality({f \in tree[domain] : endsWith(f, ".js")}) < MaxFiles
  /\ LET f == filename(domain, nextNum(domain, tree[domain]), name) IN
       /\ tree' = [tree EXCEPT ![domain] = @ \cup {f}]
       /\ last' = [action |-> "create", args |-> <<domain, name>>,
                   start |-> ledger, log |-> <<>>, exit |-> 0,
                   report |-> <<f>>]
  /\ UNCHANGED <<hasTable, ledger, inEffect, proc>>

\* ------------------------------------------------------------ dispatch
actions == {"latest", "rollback", "status", "remove"}

\* The script's top level, for the command line `argv`.  `create` with a
\* domain and a name writes a migration file and opens no connection.
main(argv, fail) ==
  \/ /\ command(argv) = "create"
     /\ createUsage(argv)
     /\ usage(argv)
  \/ /\ command(argv) = "create"
     /\ ~createUsage(argv)
     /\ createMigration(argv[2], argv[3])
  \/ /\ command(argv) \in {"up", "down"}
     /\ fileUsage(argv)
     /\ usage(argv)
  \/ /\ command(argv) = "up"
     /\ ~fileUsage(argv)
     /\ up(argv[2], fail)
  \/ /\ command(argv) = "down"
     /\ ~fileUsage(argv)
     /\ down(argv[2], fail)
  \/ /\ command(argv) \notin {"create", "up", "down"}
     /\ command(argv) \notin actions
     /\ usage(argv)
  \/ /\ command(argv) \in actions
     /\ LET domains == parseDomains(rest(argv)) IN
          \/ /\ Len(domains) = 0
             /\ usage(argv)
          \/ /\ Len(domains) # 0 /\ command(argv) = "remove"
             /\ remove(domains, fail)
          \/ /\ Len(domains) # 0 /\ command(argv) = "latest"
             /\ latest(domains, fail)
          \/ /\ Len(domains) # 0 /\ command(argv) = "rollback"
             /\ rollback(domains, fail)
          \/ /\ Len(domains) # 0 /\ command(argv) = "status"
             /\ status(domains)

\* the command lines that are run: every kind of malformed one, and well
\* formed ones of every action, some naming a domain without a directory.
\* No migration command names the domain that `create` writes to.
Argvs ==
  { <<>>, <<"migrate">>, <<"">>,
    <<"latest">>, <<"status">>, <<"rollback">>, <<"remove">>,
    <<"latest", ",">>, <<"status", " , ">>, <<"remove", ",", ",">>,
    <<"up">>, <<"down">>, <<"up", "example">>, <<"down", "auth-01-schema">>,
    <<"create">>, <<"create", "auth">>,
    <<"latest", "auth,example">>, <<"latest", "example">>,
    <<"latest", "ghost", "auth">>, <<"latest", "ghost">>,
    <<"rollback", "ghost">>, <<"remove", "ghost">>,
    <<"remove", "ghost,example">>,
    <<"status", "ghost">>, <<"status", "auth, example">>,
    <<"status", "example,ghost">>, <<"status", "">>,
    <<"rollback", "example">>, <<"rollback", "auth,ghost">>,
    <<"remove", "auth,example">>, <<"remove", "example">>,
    <<"up", "example-02-tag.js">>, <<"up", "none.js">>,
    <<"down", "example-01-schema.js">>, <<"down", "example-02-tag.js">>,
    <<"up", "example-01-schema.js", "example-03-bookmark.js">>,
    <<"down", "example-01-schema.js", "auth">>,
    <<"up", "auth", "auth-01-schema.js">>,
    <<"create", "user-profile", "role">> }

\* the file whose operations may fail in these runs
Broken == {"example-02-tag.js"}

CliNext ==
  \E argv \in Argvs : \E fail \in OneOrNone(Broken) : main(argv, fail)

CliSpec == Init /\ [][CliNext]_vars

\* --------------------------------------------------- one await at a time
\* The same handlers followed step by step: a step is one stretch of code
\* between two awaits that matter (opening the connection, one migrate
\* call, db.destroy(), the end of the process).  A migrate call is one
\* step: the migrator runs the file's operation and writes the row in one
\* transaction.  This specification follows one process at a time and
\* keeps no record of the processes that ended.

\* runMigrations(domains, action) up to the loop: knex(...) opens the
\* connection and getAppliedMigrations reads the ledger
launchRun(act, doms, fail) ==
  /\ proc.pc = "idle"
  /\ act = "latest" =>
       getLatestBatch(ledger)
         + Cardinality(FilesOf(doms) \ Names(ledger)) <= MaxBatch
  /\ hasTable' = TRUE
  /\ proc' = [Idle EXCEPT !.pc = "domains", !.action = act, !.args = doms,
                          !.start = ledger,
                          !.app = getAppliedMigrations(ledger),
                          !.domains = doms, !.fail = fail, !.conns = 1]
  /\ UNCHANGED <<ledger, inEffect, last, tree>>

\* runSingleMigration(filename, action) up to the migrate call
launchSingle(act, file, fail) ==
  /\ proc.pc = "idle"
  /\ endsWithJs(file)
  /\ act = "up" => getLatestBatch(ledger) + 1 <= MaxBatch
  /\ proc' = [Idle EXCEPT !.pc = "files", !.action = act,
                          !.args = <<file>>, !.start = ledger,
                          !.names = <<file>>, !.fail = fail, !.conns = 1]
  /\ UNCHANGED <<hasTable, ledger, inEffect, last, tree>>

\* the `remove` branch up to its loop: the domains reversed; every
\* rollbackDomain opens a connection of its own
launchRemove(doms, fail) ==
  /\ proc.pc = "idle"
  /\ proc' = [Idle EXCEPT !.pc = "reversed", !.action = "remove",
                          !.args = doms, !.start = ledger,
                          !.domains = reverse(doms), !.fail = fail]
  /\ UNCHANGED <<hasTable, ledger, inEffect, last, tree>>

\* the head of `for (const domain of domains)` in runMigrations: the list
\* of the domain's files or rows to work on; an empty one is `continue`
nextDomain ==
  /\ proc.pc = "domains"
  /\ IF proc.domains = <<>>
       THEN proc' = [proc EXCEPT !.pc = "finally"]
     ELSE LET allFiles == getMigrationFiles(Head(proc.domains))
              latestBatch == getLatestBatch(ledger)
              names ==
                IF proc.action = "latest" THEN pendingOf(allFiles, proc.app)
                ELSE IF proc.action = "rollback" /\ latestBatch # 0
                  THEN toRollback(ledger, latestBatch, allFiles)
                ELSE <<>>
          IN proc' = [proc EXCEPT !.domains = Tail(proc.domains),
                                  !.names = names,
                                  !.pc = IF names = <<>> THEN "domains"
                                         ELSE "files"]
  /\ UNCHANGED <<hasTable, ledger, inEffect, last, tree>>

\* mutant: an early return of rollbackDomain leaves without db.destroy()
rollbackDomainOpen_leak ==
  /\ proc.pc = "reversed"
  /\ IF proc.domains = <<>>
       THEN /\ proc' = [proc EXCEPT !.pc = "exit"]
            /\ UNCHANGED hasTable
     ELSE LET allFiles == getMigrationFiles(Head(proc.domains))
              names == IF Len(allFiles) = 0 THEN <<>>
                       ELSE appliedMigrations(ledger, allFiles)
          IN /\ hasTable' = TRUE
             /\ proc' = [proc EXCEPT !.domains = Tail(proc.domains),
                                     !.names = names,
                                     !.conns = proc.conns + 1,
                                     !.pc = IF names = <<>> THEN "reversed"
                                            ELSE "files"]
  /\ UNCHANGED <<ledger, inEffect, last, tree>>

\* the head of `for (const domain of reversedDomains)` and rollbackDomain
\* up to its loop: knex(...), ensureMigrationsTable, the two early returns
\* (which run the finally block), or process.exit(0) after the last domain
rollbackDomainOpen ==
  /\ proc.pc = "reversed"
  /\ IF proc.domains = <<>>
       THEN /\ proc' = [proc EXCEPT !.pc = "exit"]
            /\ UNCHANGED hasTable
     ELSE LET allFiles == getMigrationFiles(Head(proc.domains))
              names == IF Len(allFiles) = 0 THEN <<>>
                       ELSE appliedMigrations(ledger, allFiles)
          IN /\ hasTable' = TRUE
             /\ proc' = [proc EXCEPT !.domains = Tail(proc.domains),
                                     !.names = names,
                                     !.conns = proc.conns + 1,
                                     !.pc = IF names = <<>> THEN "finally"
                                            ELSE "files"]
  /\ UNCHANGED <<ledger, inEffect, last, tree>>

\* the outcome of the migrate call the process is at
callOutcome ==
  IF proc.action \in {"latest", "up"}
    THEN KnexUp(ledger, proc.log, Head(proc.names), proc.fail)
  ELSE KnexDown(ledger, proc.log, Head(proc.names), proc.fail)

\* where the process goes after the call with outcome r: an error leaves
\* the loops for the finally block, except in rollbackDomain, which
\* catches it and goes on; the last file of a domain leads back to the
\* loop over the domains (runMigrations) or to the finally block
afterCall(r) ==
  LET caught == proc.action = "remove"
      more == Tail(proc.names) # <<>>
  IN [proc EXCEPT
        !.log = r.log,
        !.names = Tail(proc.names),
        !.threw = r.threw /\ ~caught,
        !.pc = IF r.threw /\ ~caught THEN "finally"
               ELSE IF more THEN "files"
               ELSE IF proc.action \in {"latest", "rollback"} THEN "domains"
               ELSE "finally"]

\* mutant: the rows are written when the run ends, not with each file
migrateCall_deferred ==
  /\ proc.pc = "files"
  /\ LET r == callOutcome IN
       /\ ledger' = ledger
       /\ inEffect' = runOps(inEffect, SubSeq(r.log, Len(proc.log) + 1, Len(r.log)))
       /\ proc' = afterCall(r)
  /\ hasTable' = TRUE
  /\ UNCHANGED <<last, tree>>

\* await db.migrate.up({name}) / await db.migrate.down({name})
migrateCall ==
  /\ proc.pc = "files"
  /\ LET r == callOutcome IN
       /\ ledger' = r.ledger
       /\ inEffect' = runOps(inEffect, SubSeq(r.log, Len(proc.log) + 1, Len(r.log)))
       /\ proc' = afterCall(r)
  /\ hasTable' = TRUE
  /\ UNCHANGED <<last, tree>>

\* finally { await db.destroy() }; rollbackDomain then returns to the loop
\* over the domains, the other handlers to the end of the process
destroy ==
  /\ proc.pc = "finally"
  /\ proc' = [proc EXCEPT !.conns = proc.conns - 1,
                          !.pc = IF proc.action = "remove" THEN "reversed"
                                 ELSE "exit"]
  /\ UNCHANGED <<hasTable, ledger, inEffect, last, tree>>

\* process.exit(0), process.exit(1), or the end of the script; a killed
\* process is gone as well
exitProcess ==
  /\ proc.pc \in {"exit", "killed"}
  /\ proc' = Idle
  /\ UNCHANGED <<hasTable, ledger, inEffect, last, tree>>

\* the process is killed from outside, at any point; what it had in memory
\* is gone and the database stays as it is (of the process this keeps the
\* action, its arguments, the ledger it started from and the operations it
\* had executed, for the record)
interrupt ==
  /\ proc.pc \notin {"idle", "killed"}
  /\ proc' = [Idle EXCEPT !.pc = "killed", !.action = proc.action,
                          !.args = proc.args, !.start = proc.start,
                          !.log = proc.log]
  /\ UNCHANGED <<hasTable, ledger, inEffect, last, tree>>

StepNext ==
  \/ \E doms \in DomainLists : \E fail \in OneOrNone(Touched("latest", doms)) :
       launchRun("latest", doms, fail)
  \/ \E doms \in DomainLists : \E fail \in OneOrNone(Touched("rollback", doms)) :
       launchRun("rollback", doms, fail)
  \/ \E doms \in DomainLists : launchRun("status", doms, {})
  \/ \E doms \in DomainLists : \E fail \in OneOrNone(Touched("remove", doms)) :
       launchRemove(doms, fail)
  \/ \E act \in {"up", "down"} : \E f \in FileArgs : \E fail \in OneOrNone({f}) :
       launchSingle(act, f, fail)
  \/ nextDomain
  \/ rollbackDomainOpen
  \/ migrateCall
  \/ destroy
  \/ exitProcess
  \/ interrupt

StepSpec == Init /\ [][StepNext]_vars

TypeOK ==
  /\ hasTable \in BOOLEAN
  /\ \A i \in 1..Len(ledger) : ledger[i].batch \in 1..MaxBatch
  /\ inEffect \subseteq KnexMigrationSource
  /\ last.exit \in {0, 1}

\* ------------------------------------------------------------ properties
\* the rows an invocation recorded: in the ledger it left, not in the one
\* it found
Recorded(inv, L) == {r \in Range(L) : r \notin Range(inv.start)}

LogNames(log) == [i \in 1..Len(log) |-> log[i].name]

NoFailure(inv) == \A i \in 1..Len(inv.log) : inv.log[i].ok

\* this step is an invocation of `act` with the arguments `args`
Invokes(act, args) ==
  /\ last'.action = act
  /\ last'.args = args
  /\ last'.start = ledger

\* C1: whatever sequence of invocations has run, no two rows of the ledger
\* carry the same migration name.
C1_AtMostOnce ==
  \A i, j \in 1..Len(ledger) : ledger[i].name = ledger[j].name => i = j

\* C1 witness: `up` was invoked for a name that already had a row, and
\* succeeded without adding one.
C1_Witness ==
  /\ last.action = "up"
  /\ last.args[1] \in Names(last.start)
  /\ last.exit = 0
  /\ Len(ledger) >= 2

\* the domain a file of the registry belongs to
InDomain(n, d) == n \in Range(getMigrationFiles(d))

\* `inv` is a `latest d1,d2` of two different domains that succeeded and
\* recorded files of both
AppliedBoth(inv, L) ==
  /\ inv.action = "latest"
  /\ inv.exit = 0
  /\ Len(inv.args) = 2
  /\ inv.args[1] # inv.args[2]
  /\ \A i \in 1..2 : \E r \in Recorded(inv, L) : InDomain(r.name, inv.args[i])

\* C2: every row recorded by one `latest` invocation carries the batch
\* number (latest batch when the invocation started) + 1.
C2_SameBatch ==
  last.action = "latest" =>
    \A r \in Recorded(last, ledger) : r.batch = getLatestBatch(last.start) + 1

\* C3: a `rollback A,B` in which no operation fails, run right after a
\* `latest A,B` that applied files of both domains, removes every row that
\* the `latest` recorded.
C3_RollbackUndoesLatest ==
  [][(AppliedBoth(last, ledger) /\ Invokes("rollback", last.args)
        /\ NoFailure(last'))
       => Names(ledger') \cap {r.name : r \in Recorded(last, ledger)} = {}]_vars

\* C4: a `rollback A` in which no operation fails, run right after a
\* `latest A,B` that applied files of both domains, removes the rows of A
\* that the `latest` recorded and no other row.
C4_RollbackOneDomain ==
  [][\A d \in Domains :
       (AppliedBoth(last, ledger) /\ d \in Range(last.args)
          /\ Invokes("rollback", <<d>>) /\ NoFailure(last'))
         => Range(ledger') =
              Range(ledger) \ {r \in Recorded(last, ledger) : InDomain(r.name, d)}]_vars

\* the ledger that `latest doms` leaves when it runs, without a failure, on
\* an empty ledger
AfterLatest(doms) ==
  latestLoop(Outcome(<<>>, <<>>, FALSE), <<>>, doms, {}).ledger

\* C5: with `latest S1` run on an empty ledger and then `latest S2` for
\* disjoint domain sets, a `rollback S2` in which no operation fails removes
\* exactly the rows the second `latest` recorded: what it leaves is the
\* ledger the first call left.
C5_BatchScoping ==
  [][\A S1 \in DomainLists :
       (/\ last.action = "latest" /\ last.exit = 0
        /\ Range(S1) \cap Range(last.args) = {}
        /\ last.start = AfterLatest(S1)
        /\ last.start # <<>>
        /\ Recorded(last, ledger) # {}
        /\ Invokes("rollback", last.args)
        /\ NoFailure(last'))
       => ledger' = last.start]_vars

\* the three files of the domain "example" in lexical order
ExampleOrder ==
  <<"example-01-schema.js", "example-02-tag.js", "example-03-bookmark.js">>

AllDir(log, dir) == \A i \in 1..Len(log) : log[i].dir = dir

\* C6: `latest example` on an empty ledger runs the forward operations of
\* the domain's three files in lexical order, and a `remove example` right
\* after it runs their backward operations in the reverse order.
C6_OrderInvariant ==
  [][(/\ last.action = "latest" /\ last.args = <<"example">>
      /\ last.start = <<>> /\ last.exit = 0
      /\ Invokes("remove", <<"example">>))
       => /\ LogNames(last.log) = ExampleOrder
          /\ AllDir(last.log, "up")
          /\ LogNames(last'.log) = reverse(ExampleOrder)
          /\ AllDir(last'.log, "down")]_vars

\* C6 witness: `remove example` has run on the ledger that `latest example`
\* leaves from an empty one, and reverted all three files.
C6_Witness ==
  /\ last.action = "remove"
  /\ last.args = <<"example">>
  /\ last.start = AfterLatest(<<"example">>)
  /\ Len(last.log) = 3
  /\ ledger = <<>>

\* C7: a `latest` run right after a successful `latest` of the same domains
\* executes no forward operation, leaves the ledger as it is and succeeds.
C7_IdempotentLatest ==
  [][(last.action = "latest" /\ last.exit = 0 /\ Invokes("latest", last.args))
       => /\ last'.log = <<>>
          /\ ledger' = ledger
          /\ last'.exit = 0]_vars

\* C7 witness: a `latest` found every file of its domains applied and did
\* nothing, on a ledger that holds files of those domains.
C7_Witness ==
  /\ last.action = "latest"
  /\ last.exit = 0
  /\ last.log = <<>>
  /\ FilesOf(last.args) # {}
  /\ FilesOf(last.args) \subseteq Names(last.start)
  /\ ledger = last.start

\* `down` was invoked for a file that exists and has no row in the ledger
DownOfAbsent ==
  /\ last.action = "down"
  /\ last.args[1] \in KnexMigrationSource
  /\ last.args[1] \notin Names(last.start)

FailedOnSecond ==
  /\ last.action = "latest"
  /\ last.args = <<"auth", "example">>
  /\ last.log = <<Op("up", "auth-01-schema.js", TRUE),
                  Op("up", "example-01-schema.js", TRUE),
                  Op("up", "example-02-tag.js", FALSE)>>

\* C9: when `latest A,B` applies A's pending files and B's first file and
\* B's second file fails, the ledger afterwards holds the rows it held
\* before, A's files and B's first file, and not B's second file.  More
\* generally, a `latest` leaves the rows it found, followed by one row for
\* each forward operation that succeeded, and none for the one that failed.
C9_PartialFailurePreserved ==
  last.action = "latest" =>
    /\ SubSeq(ledger, 1, Len(last.start)) = last.start
    /\ rowNames(SubSeq(ledger, Len(last.start) + 1, Len(ledger)))
         = LogNames(selectRows(last.log, {e \in Range(last.log) : e.ok}))
    /\ \A e \in Range(last.log) : ~e.ok => e.name \notin Names(ledger)
    /\ FailedOnSecond =>
         /\ {"auth-01-schema.js", "example-01-schema.js"} \subseteq Names(ledger)
         /\ "example-02-tag.js" \notin Names(ledger)

\* C9 witness: the failed invocation of the claim has returned.
C9_Witness ==
  /\ FailedOnSecond
  /\ last.exit = 1
  /\ Len(ledger) = 2

\* C10: in a `latest`, a forward operation that fails is the last operation
\* of the invocation, and the invocation exits with a non-zero status.
C10_FailStopLatest ==
  last.action = "latest" =>
    \A i \in 1..Len(last.log) :
      ~last.log[i].ok => (i = Len(last.log) /\ last.exit # 0)

\* C10 witness: the first file of the first domain failed while files of
\* that domain and of a later domain were still pending.
C10_Witness ==
  /\ last.action = "latest"
  /\ last.args = <<"example", "auth">>
  /\ last.start = <<>>
  /\ last.log = <<Op("up", "example-01-schema.js", FALSE)>>
  /\ last.exit = 1

\* the ledger `start` without the rows whose backward operation succeeded
WithoutReverted(start, log) ==
  selectRows(start,
    {r \in Range(start) :
       \A i \in 1..Len(log) : (log[i].ok /\ log[i].dir = "down") => log[i].name # r.name})

\* C11: in a `rollback`, a backward operation that fails is the last
\* operation of the invocation; the failing row and every row whose backward
\* operation has not succeeded are still in the ledger, and the invocation
\* exits with a non-zero status.
C11_FailStopRollback ==
  last.action = "rollback" =>
    /\ \A i \in 1..Len(last.log) :
         ~last.log[i].ok =>
           /\ i = Len(last.log)
           /\ last.log[i].name \in Names(ledger)
           /\ last.exit # 0
    /\ ledger = WithoutReverted(last.start, last.log)

\* C11 witness: `rollback example,auth` failed on example's row, which held
\* the latest batch, and did not go on to auth's row.
C11_Witness ==
  /\ last.action = "rollback"
  /\ last.args = <<"example", "auth">>
  /\ last.log = <<Op("down", "example-01-schema.js", FALSE)>>
  /\ Names(ledger) = {"auth-01-schema.js", "example-01-schema.js"}
  /\ last.exit = 1

\* C12 as claimed: in a `remove`, a backward operation that fails is the
\* last operation of the invocation: nothing is executed for the remaining
\* rows of that domain or for the remaining domains.
C12_FailStopRemove ==
  last.action = "remove" =>
    \A i \in 1..Len(last.log) : ~last.log[i].ok => i = Len(last.log)

\* C12 amended: a `remove` does not stop at a backward operation that
\* fails.  The failing row stays in the ledger, and the backward operation
\* of every other applied row of the requested domains is still executed:
\* what is left of the ledger is what it held with the successfully
\* reverted rows taken out.
C12_RemoveContinues ==
  last.action = "remove" =>
    /\ \A i \in 1..Len(last.log) :
         ~last.log[i].ok => last.log[i].name \in Names(ledger)
    /\ Range(LogNames(last.log)) = FilesOf(last.args) \cap Names(last.start)
    /\ ledger = WithoutReverted(last.start, last.log)

\* C12 witness: `remove auth,example` with all four files applied: the
\* first backward operation failed and the other three were executed.
C12_Witness ==
  /\ last.action = "remove"
  /\ last.args = <<"auth", "example">>
  /\ last.log = <<Op("down", "example-03-bookmark.js", FALSE),
                  Op("down", "example-02-tag.js", TRUE),
                  Op("down", "example-01-schema.js", TRUE),
                  Op("down", "auth-01-schema.js", TRUE)>>
  /\ Names(ledger) = {"example-03-bookmark.js"}

\* C13: an invocation of latest, rollback, remove, up or down exits with
\* status 0 only if every operation it attempted succeeded; when an
\* attempted operation failed, the exit status is not 0.
C13_ExitStatus ==
  last.action \in {"latest", "rollback", "remove", "up", "down"} =>
    /\ last.exit = 0 => NoFailure(last)
    /\ ~NoFailure(last) => last.exit # 0

\* C14: between invocations, the names in the ledger are exactly the
\* migrations in effect: those whose forward operation has succeeded and
\* has not since been successfully reverted.  A forward operation that
\* failed left no row and a backward operation that failed removed none.
C14_LedgerReflectsReality ==
  /\ Names(ledger) = inEffect
  /\ \A i \in 1..Len(last.log) :
       ~last.log[i].ok =>
         (last.log[i].name \in Names(ledger)) = (last.log[i].dir = "down")

\* C14 witness: a `remove` in which one backward operation failed and
\* another succeeded has returned; the failing migration is still in effect
\* and still in the ledger.
C14_Witness ==
  /\ last.action = "remove"
  /\ \E i, j \in 1..Len(last.log) :
       /\ ~last.log[i].ok
       /\ last.log[j].ok
       /\ last.log[i].name \in inEffect \cap Names(ledger)
       /\ last.log[j].name \notin inEffect \cup Names(ledger)

\* C15: in `remove d1,...,dn` (different domains), every backward operation
\* for a domain given later is executed before any backward operation for a
\* domain given earlier.
C15_RemoveReverseDomains ==
  (/\ last.action = "remove"
   /\ \A i, j \in 1..Len(last.args) : last.args[i] = last.args[j] => i = j)
    => \A i, j \in 1..Len(last.args) : \A p, q \in 1..Len(last.log) :
         (/\ i < j
          /\ InDomain(last.log[p].name, last.args[j])
          /\ InDomain(last.log[q].name, last.args[i]))
           => p < q

\* C15 witness: `remove auth,example` reverted files of both domains, all of
\* example's before auth's.
C15_Witness ==
  /\ last.action = "remove"
  /\ last.args = <<"auth", "example">>
  /\ NoFailure(last)
  /\ Len(last.log) >= 3
  /\ InDomain(last.log[1].name, "example")
  /\ InDomain(last.log[Len(last.log)].name, "auth")
  /\ ledger = <<>>

\* C16: a `status` invocation executes no forward or backward operation,
\* leaves every ledger row and every migration in effect as it found them
\* and exits with 0, whatever its domains, also one without a migrations
\* directory.
C16_StatusPureRead ==
  last.action = "status" =>
    /\ last.log = <<>>
    /\ ledger = last.start
    /\ inEffect = Names(last.start)
    /\ last.exit = 0

\* C16 witness: `status` has run for a domain list that names a domain
\* without a directory, on a ledger that holds rows.
C16_Witness ==
  /\ last.action = "status"
  /\ "ghost" \in Range(last.args)
  /\ ~existsSync("ghost")
  /\ ledger # <<>>
  /\ last.exit = 0

\* the migration files in the directory of domain d
FilesIn(d) == {f \in Directory(d) : endsWithJs(f)}

\* s is in strictly ascending lexical order
Sorted(s) == \A p, q \in 1..Len(s) : p < q => LexLess(s[p], s[q])

\* C17: for each requested domain, `status` reports as applied exactly the
\* domain's files whose name is in the ledger and as pending exactly those
\* whose name is not; the two lists share no file, together hold every file
\* of the domain, and each is in lexical order.
C17_StatusPartition ==
  last.action = "status" =>
    /\ Len(last.report) = Len(last.args)
    /\ \A i \in 1..Len(last.report) :
         LET r == last.report[i]
             d == last.args[i]
         IN /\ r.domain = d
            /\ Range(r.completed) = FilesIn(d) \cap Names(last.start)
            /\ Range(r.pending) = FilesIn(d) \ Names(last.start)
            /\ Range(r.completed) \cap Range(r.pending) = {}
            /\ Range(r.completed) \cup Range(r.pending) = FilesIn(d)
            /\ Sorted(r.completed)
            /\ Sorted(r.pending)

\* C17 witness: `status` reported a domain with both applied and pending
\* files, next to another domain.
C17_Witness ==
  /\ last.action = "status"
  /\ Len(last.report) = 2
  /\ \E i \in 1..2 :
       /\ last.report[i].completed # <<>>
       /\ last.report[i].pending # <<>>
       /\ Len(last.report[i].completed) + Len(last.report[i].pending) = 3

\* the malformed command lines of the claim: no or an unknown action, no
\* domain for latest/status/rollback/remove, no or a non-.js file name for
\* up/down, no domain or name for create
UsageCase(argv) ==
  IF argv = <<>> THEN TRUE
  ELSE IF argv[1] \in {"latest", "status", "rollback", "remove"}
    THEN \A i \in 2..Len(argv) : argv[i] \in {",", " , "}
  ELSE IF argv[1] \in {"up", "down"}
    THEN IF Len(argv) = 1 THEN TRUE
         ELSE SubSeq(argv[2], Len(argv[2]) - 2, Len(argv[2])) # ".js"
  ELSE IF argv[1] = "create" THEN Len(argv) < 3
  ELSE TRUE

UsageArgvs == {argv \in Argvs : UsageCase(argv)}

\* C18: running a malformed command line ends with a non-zero status,
\* executes no operation, opens no connection (the migrations table is not
\* even looked for) and leaves the ledger and the migrations in effect
\* untouched.
C18_UsageNoSideEffects ==
  [][\A argv \in UsageArgvs :
       main(argv, {})
         => /\ last'.exit # 0
            /\ last'.log = <<>>
            /\ hasTable' = hasTable
            /\ ledger' = ledger
            /\ inEffect' = inEffect]_vars

\* C18 witness: a command line whose domain argument holds no domain was
\* rejected while the ledger held rows; and one was rejected before the
\* migrations table was ever created.
C18_Witness ==
  /\ last.action = "usage"
  /\ last.exit = 1
  /\ \/ last.args = <<"status", " , ">> /\ ledger # <<>>
     \/ last.args = <<"latest", ",">> /\ ~hasTable

UpAppliesOnlyNamed ==
  \A f \in KnexMigrationSource :
    (Invokes("up", <<f>>) /\ f \notin Names(ledger) /\ last'.exit = 0)
      => /\ last'.log = <<Op("up", f, TRUE)>>
         /\ Names(ledger') = Names(ledger) \cup {f}

\* this step is the `up example-02-tag.js` of the scenario: it follows a
\* `rollback example` that followed `latest auth,example` on an empty
\* ledger, and leaves auth's rows and example-02-tag, without
\* example-01-schema
UpAfterRollback ==
  (/\ last.action = "rollback" /\ last.args = <<"example">>
   /\ last.start = AfterLatest(<<"auth", "example">>)
   /\ NoFailure(last)
   /\ Invokes("up", <<"example-02-tag.js">>)
   /\ last'.exit = 0)
    => Names(ledger') = Names(AfterLatest(<<"auth">>)) \cup {"example-02-tag.js"}

\* C20: `up <file>` applies and records the named file even when
\* lower-sequence files of its domain are not in the ledger, and applies no
\* other file; after `latest auth,example` and `rollback example`,
\* `up example-02-tag.js` leaves auth's rows plus example-02-tag, without
\* example-01-schema.
C20_UpBypassesOrder == [][UpAppliesOnlyNamed /\ UpAfterRollback]_vars

\* C21: applying a migration whose name is already in the ledger executes no
\* forward operation and adds no row: an `up` of such a name does nothing,
\* and no forward operation of a `latest` is for a name that was in the
\* ledger when it started or that the invocation itself has applied before
\* (a domain listed twice).
C21_AppliedAreSkipped ==
  /\ (last.action = "up" /\ last.args[1] \in Names(last.start))
       => (last.log = <<>> /\ ledger = last.start)
  /\ last.action = "latest" =>
       /\ \A i \in 1..Len(last.log) :
            /\ last.log[i].name \notin Names(last.start)
            /\ \A j \in 1..(i - 1) : last.log[j].name # last.log[i].name
       /\ Len(ledger) = Len(last.start)
                          + Cardinality({i \in 1..Len(last.log) : last.log[i].ok})

\* C21 witness: a `latest` that names a domain twice applied its files in
\* the first pass and ran into them again, already applied, in the second.
C21_Witness ==
  /\ last.action = "latest"
  /\ last.args = <<"example", "example">>
  /\ last.exit = 0
  /\ Len(last.log) = 2
  /\ Len(ledger) = 3

\* `up` was invoked for a name that had a row in the ledger
UpOfPresent ==
  /\ last.action = "up"
  /\ last.args[1] \in Names(last.start)

Distinct(doms) == \A i, j \in 1..Len(doms) : doms[i] = doms[j] => i = j

\* the id order of the row of name n in the ledger L
Pos(L, n) == CHOOSE i \in 1..Len(L) : L[i].name = n

SameDomain(m, n) == \E d \in Domains : InDomain(m, d) /\ InDomain(n, d)

\* C26 as claimed: `rollback` and `remove` (of different domains) execute
\* the backward operations of one domain in descending file order, whatever
\* order the files were applied in.
C26_ReverseFileOrder ==
  (last.action \in {"rollback", "remove"} /\ Distinct(last.args)) =>
    \A p, q \in 1..Len(last.log) :
      (p < q /\ SameDomain(last.log[p].name, last.log[q].name))
        => LexLess(last.log[q].name, last.log[p].name)

\* C26 amended: `rollback` and `remove` (of different domains) execute the
\* backward operations of one domain in the reverse of the order in which
\* the rows were inserted (descending id): newest first.  This is
\* descending file order only when the files were applied in file order.
C26_ReverseInsertionOrder ==
  (last.action \in {"rollback", "remove"} /\ Distinct(last.args)) =>
    \A p, q \in 1..Len(last.log) :
      (p < q /\ SameDomain(last.log[p].name, last.log[q].name))
        => Pos(last.start, last.log[q].name) < Pos(last.start, last.log[p].name)

\* C26 witness: `remove example` on a ledger in which example-02-tag.js was
\* applied before example-01-schema.js reverted the schema first.
C26_Witness ==
  /\ last.action = "remove"
  /\ last.args = <<"example">>
  /\ rowNames(last.start) = <<"example-02-tag.js", "example-01-schema.js">>
  /\ LogNames(last.log) = <<"example-01-schema.js", "example-02-tag.js">>
  /\ NoFailure(last)

\* C27: the rows a `rollback` removes all carry the batch number that was
\* the highest in the ledger when the invocation started.
C27_OnlyLatestBatch ==
  last.action = "rollback" =>
    \A r \in Range(last.start) :
      r \notin Range(ledger) => r.batch = getLatestBatch(last.start)

\* C28: the forward operations of a `latest` for one domain run in lexical
\* file order, and for `latest d1,...,dn` (different domains) every forward
\* operation of an earlier domain runs before any of a later domain.
C28_LatestDomainOrder ==
  last.action = "latest" =>
    /\ \A p, q \in 1..Len(last.log) :
         (p < q /\ SameDomain(last.log[p].name, last.log[q].name))
           => LexLess(last.log[p].name, last.log[q].name)
    /\ Distinct(last.args) =>
         \A i, j \in 1..Len(last.args) : \A p, q \in 1..Len(last.log) :
           (/\ i < j
            /\ InDomain(last.log[p].name, last.args[i])
            /\ InDomain(last.log[q].name, last.args[j]))
             => p < q

\* C28 witness: `latest example,auth` on an empty ledger ran example's three
\* files and then auth's, although auth's name sorts first.
C28_Witness ==
  /\ last.action = "latest"
  /\ last.args = <<"example", "auth">>
  /\ LogNames(last.log) = ExampleOrder \o <<"auth-01-schema.js">>
  /\ LexLess("auth-01-schema.js", "example-01-schema.js")
  /\ last.exit = 0

\* C29: when a `latest` ends without a failure, every migration file of
\* every listed domain is in the ledger.
C29_LatestComplete ==
  (last.action = "latest" /\ last.exit = 0) =>
    \A i \in 1..Len(last.args) : FilesIn(last.args[i]) \subseteq Names(ledger)

\* C29 witness: `latest auth,example` completed a ledger in which only
\* example-02-tag.js had been applied.
C29_Witness ==
  /\ last.action = "latest"
  /\ last.args = <<"auth", "example">>
  /\ rowNames(last.start) = <<"example-02-tag.js">>
  /\ last.exit = 0
  /\ Len(ledger) = 4

\* C30: within one invocation no file's forward operation and no file's
\* backward operation is executed twice.
C30_NoRetry ==
  \A i, j \in 1..Len(last.log) :
    (last.log[i].name = last.log[j].name /\ last.log[i].dir = last.log[j].dir)
      => i = j

\* some / every domain of the list has no migrations directory
SomeMissing(doms) == \E i \in 1..Len(doms) : ~existsSync(doms[i])
AllMissing(doms) == \A i \in 1..Len(doms) : ~existsSync(doms[i])

\* C23: a domain without a migrations directory is no error.  An invocation
\* of latest, status, rollback or remove whose domains all lack a directory
\* executes nothing, leaves the ledger unchanged and exits with 0; one that
\* names such a domain among others fails only when an operation fails and
\* still processes the others: latest applies every file of the other
\* domains, remove attempts every applied row of the other domains, and
\* rollback attempts the row of the latest batch when it belongs to one of
\* them.
C23_MissingDirectory ==
  (last.action \in actions /\ SomeMissing(last.args)) =>
    /\ AllMissing(last.args) =>
         (last.log = <<>> /\ ledger = last.start /\ last.exit = 0)
    /\ NoFailure(last) => last.exit = 0
    /\ (last.action = "latest" /\ last.exit = 0) =>
         \A i \in 1..Len(last.args) : FilesIn(last.args[i]) \subseteq Names(ledger)
    /\ last.action = "remove" =>
         Range(LogNames(last.log)) = FilesOf(last.args) \cap Names(last.start)
    /\ last.action = "rollback" =>
         \A r \in Range(last.start) :
           (r.batch = getLatestBatch(last.start) /\ r.name \in FilesOf(last.args))
             => r.name \in Range(LogNames(last.log))

\* C23 witness: `latest ghost auth` went past the domain without a
\* directory and applied auth's file.
C23_Witness ==
  /\ last.action = "latest"
  /\ last.args = <<"ghost", "auth">>
  /\ ~existsSync("ghost")
  /\ last.log = <<Op("up", "auth-01-schema.js", TRUE)>>
  /\ last.exit = 0

\* C24: a process that reaches its end has closed every connection it
\* opened, on the path of success, of an error that was rethrown and of an
\* early return; it never holds more than one connection, and holds one
\* whenever it makes a migrate call.
C24_ConnectionReleased ==
  /\ proc.conns \in {0, 1}
  /\ proc.pc = "exit" => proc.conns = 0
  /\ proc.pc = "files" => proc.conns = 1

\* C24 witness: a `rollback` whose backward operation failed is about to
\* exit, after the finally block.
C24_Witness ==
  /\ proc.pc = "exit"
  /\ proc.action = "rollback"
  /\ proc.threw
  /\ proc.log # <<>>
  /\ proc.conns = 0

\* the names of the operations of `log` that succeeded, in order
Completed(log) == LogNames(selectRows(log, {e \in Range(log) : e.ok}))

RECURSIVE PlanOf(_, _)
\* the files a `latest` of the domains `doms` is to apply when the ledger
\* holds the names `have`: for each domain in turn, its files without a
\* row, in lexical order
PlanOf(doms, have) ==
  IF doms = <<>> THEN <<>>
  ELSE LET p == sort(FilesIn(Head(doms)) \ have)
       IN p \o PlanOf(Tail(doms), have \cup Range(p))

IsPrefix(s, t) == Len(s) <= Len(t) /\ SubSeq(t, 1, Len(s)) = s

C31_NothingToUndo ==
  /\ (last.action = "rollback" /\ last.start = <<>>) =>
       (last.log = <<>> /\ ledger = last.start /\ last.exit = 0)
  /\ (last.action = "remove"
        /\ FilesOf(last.args) \cap Names(last.start) = {}) =>
       (last.log = <<>> /\ ledger = last.start /\ last.exit = 0)
  /\ last.action = "remove" =>
       \A i \in 1..Len(last.args) :
         FilesIn(last.args[i]) \cap Names(last.start) = {} =>
           \A p \in 1..Len(last.log) :
             ~InDomain(last.log[p].name, last.args[i])

\* C31 witness: `remove auth` on a ledger that holds rows of example only
\* did nothing and exited with 0.
C31_Witness ==
  /\ last.action = "remove"
  /\ last.args = <<"auth">>
  /\ last.start # <<>>
  /\ "auth-01-schema.js" \notin Names(last.start)
  /\ last.log = <<>>
  /\ ledger = last.start
  /\ last.exit = 0

\* an `up` or `down` command line that does not consist of exactly one
\* file name ending in .js
NotOneFile(argv) ==
  /\ command(argv) \in {"up", "down"}
  /\ IF Len(argv) # 2 THEN TRUE ELSE ~endsWith(argv[2], ".js")

\* C33: `up` and `down` with no file name, with more than one argument, or
\* with a first argument that does not end in .js are rejected as a usage
\* error: a non-zero exit, no operation executed, the ledger untouched.
C33_ExactlyOneFilename ==
  [][\A argv \in Argvs :
       (NotOneFile(argv) /\ main(argv, {}))
         => /\ last'.exit # 0
            /\ last'.log = <<>>
            /\ ledger' = ledger]_vars

\* the part of C33 the dispatch does enforce: no first argument, or one
\* that does not end in .js, is a usage error that runs nothing
FirstArgumentChecked ==
  [][\A argv \in Argvs :
       (command(argv) \in {"up", "down"} /\ fileUsage(argv) /\ main(argv, {}))
         => /\ last'.action = "usage"
            /\ last'.exit # 0
            /\ last'.log = <<>>
            /\ hasTable' = hasTable
            /\ ledger' = ledger]_vars

RECURSIVE tokens(_)
\* the domain identifiers a list of arguments names: every argument cut at
\* its commas, the pieces trimmed, the empty ones dropped, in order
tokens(input) ==
  IF input = <<>> THEN <<>>
  ELSE LET ps == splitComma(Head(input), "")
       IN nonEmpty([i \in 1..Len(ps) |-> trim(ps[i])]) \o tokens(Tail(input))

\* C34: for every command line of latest, status, rollback or remove, the
\* domains handed to the handler are the non-empty identifiers of the
\* arguments, in the caller's order, and a command line without any is a
\* usage error.
C34_DomainsNonEmpty ==
  [][\A argv \in Argvs :
       (command(argv) \in actions /\ main(argv, {}))
         => IF tokens(rest(argv)) = <<>>
              THEN last'.action = "usage" /\ last'.exit # 0
            ELSE /\ last'.action = command(argv)
                 /\ last'.args = tokens(rest(argv))
                 /\ \A i \in 1..Len(last'.args) : last'.args[i] # ""]_vars

\* the part of C34 that parseDomains does ensure: the pieces of an argument
\* that holds a comma are trimmed and the empty ones dropped, the order of
\* the arguments and of their pieces is kept, and an empty list of domains
\* is a usage error
CommaPiecesNonEmpty ==
  [][\A argv \in Argvs :
       (command(argv) \in actions /\ main(argv, {}))
         => IF parseDomains(rest(argv)) = <<>>
              THEN last'.action = "usage" /\ last'.exit # 0
            ELSE /\ last'.args = parseDomains(rest(argv))
                 /\ \A i \in 2..Len(argv) :
                      includesComma(argv[i]) =>
                        \A d \in Range(parseDomains(<<argv[i]>>)) : d # ""]_vars

\* the names given to `create`
CreateNames == {"role", "tag"}

\* the largest number that padStart leaves at PadWidth digits
Widest == 10 ^ PadWidth - 1

\* the sets of sequence numbers a directory starts with
SeedSets == {{}, {1}, {1, 2}, {1, 3}, {Widest - 1}, {Widest}}

\* the listings a domain's directory starts with: the one of the repository
\* and generated files with the numbers of a seed set
Listings(d) ==
  {Directory(d)} \cup {{filename(d, q, "role") : q \in S} : S \in SeedSets}

CreateInit ==
  /\ hasTable = FALSE
  /\ ledger = <<>>
  /\ inEffect = {}
  /\ last = NoInvocation
  /\ proc = Idle
  /\ \E dom \in TreeDomains : \E L \in Listings(dom) :
       tree = [d \in TreeDomains |-> IF d = dom THEN L ELSE Directory(d)]

CreateNext ==
  \E d \in TreeDomains : \E n \in CreateNames : createMigration(d, n)

CreateSpec == CreateInit /\ [][CreateNext]_vars

\* f is a file `{d}-{NN}-{name}.js` of the domain d, and the number it
\* carries: the digits between the prefix `{d}-` and the next hyphen
Generated(d, f) ==
  /\ startsWith(f, d \o "-")
  /\ endsWith(f, ".js")
  /\ digitsEnd(f, Len(d) + 2) >= Len(d) + 2
  /\ digitsEnd(f, Len(d) + 2) < Len(f)
  /\ SubSeq(f, digitsEnd(f, Len(d) + 2) + 1, digitsEnd(f, Len(d) + 2) + 1) = "-"

SeqOf(d, f) == parseInt(SubSeq(f, Len(d) + 2, digitsEnd(f, Len(d) + 2)))

\* the numbers the files of d carry in the tree
Used(d) == {SeqOf(d, f) : f \in {g \in tree[d] : Generated(d, g)}}

\* `create d n` wrote a file whose number is the highest used one plus 1,
\* or 1 when d has no file
PicksNext(d, n) ==
  createMigration(d, n) =>
    /\ Generated(d, last'.report[1])
    /\ SeqOf(d, last'.report[1]) = (IF Used(d) = {} THEN 1 ELSE Max(Used(d)) + 1)
    /\ \A u \in Used(d) : SeqOf(d, last'.report[1]) > u

\* C35: `create` picks an unused sequence number, for any domain and any
\* set of files `{domain}-{NN}-{name}.js` in its directory: the highest
\* number of the domain plus 1, or 1 when there is none.
C35_UnusedSequenceNumber ==
  [][\A d \in TreeDomains : \A n \in CreateNames : PicksNext(d, n)]_vars

\* the part of C35 that holds: a domain whose name has no hyphen
NextWithoutHyphen ==
  [][\A d \in {e \in TreeDomains : firstHyphen(e) = 0} :
       \A n \in CreateNames : PicksNext(d, n)]_vars

\* the UTF-16 code unit of a character of a generated file name
charCode(c) ==
  IF c = "-" THEN 45
  ELSE IF c = "." THEN 46
  ELSE IF c = "_" THEN 95
  ELSE IF isDigit(c) THEN 48 + digitValue(c)
  ELSE 96 + (CHOOSE i \in 1..26 :
               SubSeq("abcdefghijklmnopqrstuvwxyz", i, i) = c)

charCodes(s) == [i \in 1..Len(s) |-> charCode(SubSeq(s, i, i))]

RECURSIVE sortNames(_)
\* .sort() of a set of file names given as strings
sortNames(S) ==
  IF S = {} THEN <<>>
  ELSE LET m == CHOOSE x \in S :
                  \A y \in S \ {x} : SeqLess(charCodes(x), charCodes(y))
       IN <<m>> \o sortNames(S \ {m})

\* getMigrationFiles(d) read from the tree
listing(d) == sortNames({f \in tree[d] : endsWith(f, ".js")})

\* in the sorted listing of d the generated files stand in the order of
\* their numbers, as far as both numbers are at most `top`
InSequenceOrder(d, top) ==
  LET reg == listing(d) IN
    \A p, q \in 1..Len(reg) :
      (/\ Generated(d, reg[p]) /\ Generated(d, reg[q])
       /\ SeqOf(d, reg[p]) <= top /\ SeqOf(d, reg[q]) <= top
       /\ SeqOf(d, reg[p]) < SeqOf(d, reg[q]))
        => p < q

\* C36: lexical order equals sequence order: of two generated files of one
\* domain the one with the smaller number comes first in the sorted listing,
\* for every pair of numbers the generator can produce.
C36_LexicalIsSequence ==
  \A d \in TreeDomains : InSequenceOrder(d, Widest + MaxFiles)

\* the part of C36 that holds: numbers that padStart leaves at two digits
TwoDigitOrder ==
  \A d \in TreeDomains : InSequenceOrder(d, Widest)

\* C37: batch numbers are monotonic.  The latest batch number is 0 for an
\* empty ledger and otherwise the highest batch of its rows, and every row
\* that a `latest` or an `up` inserted has a positive batch number that is
\* greater than the batch number of every row the invocation started from.
C37_BatchMonotonic ==
  /\ ledger = <<>> => getLatestBatch(ledger) = 0
  /\ ledger # <<>> =>
       /\ \E i \in 1..Len(ledger) : ledger[i].batch = getLatestBatch(ledger)
       /\ \A i \in 1..Len(ledger) : ledger[i].batch <= getLatestBatch(ledger)
  /\ last.action \in {"latest", "up"} =>
       \A r \in Recorded(last, ledger) :
         /\ r.batch \in Nat \ {0}
         /\ r.batch > getLatestBatch(last.start)
         /\ \A s \in Range(last.start) : r.batch > s.batch

\* C37 witness: `latest example` on a ledger that held auth's row inserted
\* three rows, each with a batch above the one it started from.
C37_Witness ==
  /\ last.action = "latest"
  /\ last.args = <<"example">>
  /\ rowNames(last.start) = <<"auth-01-schema.js">>
  /\ last.exit = 0
  /\ Len(ledger) = 4
  /\ \A i \in 2..4 : ledger[i].batch > last.start[1].batch

\* the directions of the operations an invocation executed
Directions(inv) == {inv.log[i].dir : i \in 1..Len(inv.log)}

\* C38: the direction frame.  A `latest` or an `up` deletes no row of the
\* ledger and executes no backward operation; a `rollback`, a `remove` or a
\* `down` inserts no row and executes no forward operation; a `create`
\* opens no connection, leaves the ledger as it is and executes nothing.
C38_DirectionFrame ==
  [][/\ last'.action \in {"latest", "up"} =>
          /\ Len(ledger') >= Len(ledger)
          /\ SubSeq(ledger', 1, Len(ledger)) = ledger
          /\ Directions(last') \subseteq {"up"}
     /\ last'.action \in {"rollback", "remove", "down"} =>
          /\ Range(ledger') \subseteq Range(ledger)
          /\ ledger' = selectRows(ledger, Range(ledger'))
          /\ Directions(last') \subseteq {"down"}
     /\ last'.action = "create" =>
          /\ ledger' = ledger
          /\ hasTable' = hasTable
          /\ inEffect' = inEffect
          /\ last'.log = <<>>]_vars

\* C38 witness: after a file was scaffolded, a `remove` that met a failing
\* file deleted rows of the ledger it started from and inserted none.
C38_Witness ==
  /\ tree["user-profile"] # {}
  /\ last.action = "remove"
  /\ last.exit = 0
  /\ Len(ledger) < Len(last.start)
  /\ \E i \in 1..Len(last.log) : ~last.log[i].ok

\* the rows of L that belong to none of the domains `doms`
OtherRows(L, doms) ==
  selectRows(L, {r \in Range(L) : r.name \notin FilesOf(doms)})

\* no operation of the invocation failed
Unfailed(inv) == inv.exit = 0 /\ \A i \in 1..Len(inv.log) : inv.log[i].ok

\* C39: apply/remove round trip.  When `latest` of some domains ran without
\* a failing operation and `remove` of the same domains runs next, also
\* without one, then afterwards the ledger holds no file of a listed domain,
\* in whatever batches they were applied, and the rows of the other domains
\* are those the ledger held before the `latest`.
C39_ApplyRemoveRoundTrip ==
  [][(/\ last.action = "latest" /\ Unfailed(last)
      /\ last'.action = "remove" /\ last'.args = last.args
      /\ last'.start = ledger /\ Unfailed(last'))
       => /\ Names(ledger') \cap FilesOf(last.args) = {}
          /\ OtherRows(ledger', last.args) = OtherRows(last.start, last.args)]_vars

\* C39 witness: `remove example` after `latest example` deleted example's
\* three rows, which held three batch numbers, and left auth's row.
C39_Witness ==
  /\ last.action = "remove"
  /\ last.args = <<"example">>
  /\ Unfailed(last)
  /\ Names(last.start) = FilesOf(<<"auth", "example">>)
  /\ Cardinality({r.batch : r \in {s \in Range(last.start) :
                                     s.name \in FilesOf(<<"example">>)}}) = 3
  /\ last.start[1].name \in FilesOf(<<"auth">>)
  /\ ledger = <<last.start[1]>>

====
